---- MODULE Spec2Model ----
(***************************************************************************)
(* State-machine model of src/app.py: a Streamlit chat page that forwards  *)
(* the last turns of a conversation to a chat-completion endpoint and      *)
(* replays the reply character by character.                               *)
(*                                                                         *)
(* The script is re-executed from the top on every widget event.  The      *)
(* session state (messages, total_tokens, model) survives between runs;    *)
(* everything else is local to one run.  A run is split where it blocks:   *)
(* at requests.post (line 147) and at each time.sleep of the typing loop   *)
(* (line 198).  A widget event that arrives while a run is in progress is  *)
(* latched by the framework and ends the run at its next st.* call.        *)
(*                                                                         *)
(* Texts are sequences of characters.  JSON objects are records; a key     *)
(* that is absent from the JSON is a field absent from the record.         *)
(***************************************************************************)
EXTENDS Integers, Sequences, FiniteSets, TLC

VARIABLES
    secrets,          \* st.secrets["OPENROUTER_API_KEY"], or NoKey
    environ,          \* os.getenv("OPENROUTER_API_KEY"), or NoKey
    API_KEY,          \* module-level API_KEY, set by lines 9-15 of every run
    messages,         \* st.session_state.messages
    total_tokens,     \* st.session_state.total_tokens
    model,            \* st.session_state.model
    pc,               \* where the current script run stands
    request,          \* widget event latched by the framework, or NoRequest
    data,             \* JSON body of the request issued by this run, or NoData
    response_data,    \* parsed body of the 200 response, or NoData
    reply,            \* local `reply` (a JSON value)
    tokens_used,      \* local `tokens_used`
    displayed_text,   \* local `displayed_text` of the typing loop
    shown,            \* what message_placeholder shows
    before            \* session state found by the run that handles an event

vars == <<secrets, environ, API_KEY, messages, total_tokens, model, pc,
          request, data, response_data, reply, tokens_used, displayed_text,
          shown, before>>

-----------------------------------------------------------------------------
(* Bounds *)

MaxTurns == 6      \* longest conversation explored
MaxTokens == 1     \* largest usage.total_tokens the endpoint reports
MaxTotal == 3      \* cap on the running token counter

-----------------------------------------------------------------------------
(* Values *)

NoKey == <<>>
NoRequest == [kind |-> "none"]
NoData == [none |-> TRUE]
NoBefore == [none |-> TRUE]

HardCodedKey == <<"s", "5", "k">>
Cursor == "_"
ContextTurns == 5
DefaultModel == "openai/gpt-3.5-turbo"

Keys == {NoKey, <<"k">>}   \* a key that is absent reads as empty
Prompts == {<<"p">>}
ReplyTexts == {<<>>, <<"a", "b">>}

JsonNull == [null |-> TRUE]
JsonStr(s) == [str |-> s]
IsStr(v) == "str" \in DOMAIN v

\* bodies of a 200 response
Contents == {JsonNull} \cup {JsonStr(s) : s \in ReplyTexts}
Usages == {[prompt_tokens |-> 1]} \cup {[total_tokens |-> t] : t \in 0..MaxTokens}
WellFormedBodies ==
    {[choices |-> <<[message |-> [content |-> c]]>>] : c \in Contents}
      \cup {[choices |-> <<[message |-> [content |-> c]]>>, usage |-> u] :
              c \in Contents, u \in Usages}
MalformedBodies ==
    {[error |-> TRUE], [choices |-> <<>>],
     [choices |-> <<[index |-> 0]>>],
     [choices |-> <<[message |-> [role |-> "assistant"]]>>]}

Outcomes ==
    {[kind |-> "Timeout"], [kind |-> "ConnectionError"]}
      \cup {[kind |-> "http", status |-> s] : s \in {401, 402, 429, 500}}
      \cup {[kind |-> "http", status |-> 200, json |-> FALSE]}
      \cup {[kind |-> "http", status |-> 200, json |-> TRUE, body |-> b] :
              b \in WellFormedBodies \cup MalformedBodies}

-----------------------------------------------------------------------------
(* Pure parts of the script *)

\* lines 9-15.  The `elif:` of line 11 has no condition, so which of the
\* last two branches runs is not fixed by the source: both are possible.
LoadApiKey(in_secrets, in_environ) ==
    IF in_secrets # NoKey THEN {in_secrets}
    ELSE {in_environ, HardCodedKey}

\* `if not API_KEY` (line 87): None and "" are both falsy
KeyMissing == API_KEY = NoKey

\* no key in the secrets store and none in the environment variable
CredentialAbsent == secrets = NoKey /\ environ = NoKey

\* lines 116-121
Last(s, n) == SubSeq(s, Len(s) - n + 1, Len(s))
RoleContent(msg) == [role |-> msg.role, content |-> msg.content]
\* variant: the whole history is sent (the slice of line 117 is missing)
MessagesForApiAll(msgs) ==
    [i \in 1..Len(msgs) |-> RoleContent(msgs[i])]

MessagesForApi(msgs) ==
    LET tail == IF Len(msgs) > ContextTurns THEN Last(msgs, ContextTurns) ELSE msgs
    IN  [i \in 1..Len(tail) |-> RoleContent(tail[i])]

\* line 186
HasChoices(body) == "choices" \in DOMAIN body /\ Len(body.choices) > 0

\* line 187: a KeyError unless choices[0].message.content exists
HasContent(body) ==
    /\ "message" \in DOMAIN body.choices[1]
    /\ "content" \in DOMAIN body.choices[1].message
Reply(body) == body.choices[1].message.content

\* variant: the default of line 190 is 1 instead of 0
TokensUsedDefaultOne(body) ==
    IF "usage" \in DOMAIN body /\ "total_tokens" \in DOMAIN body.usage
    THEN body.usage.total_tokens
    ELSE 1

\* line 190
TokensUsed(body) ==
    IF "usage" \in DOMAIN body /\ "total_tokens" \in DOMAIN body.usage
    THEN body.usage.total_tokens
    ELSE 0

-----------------------------------------------------------------------------

Init ==
    /\ secrets \in Keys
    /\ environ \in Keys
    /\ API_KEY \in LoadApiKey(secrets, environ)
    /\ messages = <<>>
    /\ total_tokens = 0
    /\ model = DefaultModel
    /\ pc = "Idle"
    /\ request = NoRequest
    /\ data = NoData
    /\ response_data = NoData
    /\ reply = JsonNull
    /\ tokens_used = 0
    /\ displayed_text = <<>>
    /\ shown = <<>>
    /\ before = NoBefore

Env == <<secrets, environ, API_KEY>>
Session == <<messages, total_tokens, model>>
Locals == <<data, response_data, reply, tokens_used, displayed_text, shown, before>>

\* a run that ends drops its locals
EndRun ==
    /\ data' = NoData
    /\ response_data' = NoData
    /\ reply' = JsonNull
    /\ tokens_used' = 0
    /\ displayed_text' = <<>>
    /\ shown' = <<>>
    /\ before' = NoBefore
-----------------------------------------------------------------------------
(* Widget events.  Neither widget is created with `disabled=`, so both     *)
(* accept an event whatever the running script is doing; the framework     *)
(* keeps the event until the script thread can start the next run.         *)

\* line 77: the button is drawn by every run, before any st.stop()
ClickClear ==
    /\ request = NoRequest
    /\ request' = [kind |-> "clear"]
    /\ UNCHANGED <<Env, Session, pc, Locals>>

\* line 109: the chat input is drawn only by a run that passed line 99
SubmitPrompt ==
    /\ request = NoRequest
    /\ ~KeyMissing
    /\ Len(messages) < MaxTurns
    /\ \E prompt \in Prompts : request' = [kind |-> "chat", prompt |-> prompt]
    /\ UNCHANGED <<Env, Session, pc, Locals>>

-----------------------------------------------------------------------------
(* Script runs *)

SessionState ==
    [messages |-> messages, total_tokens |-> total_tokens, model |-> model]

\* variant: line 79 is missing, the counter survives the reset
ClearChatKeepsCounter ==
    /\ pc = "Idle"
    /\ request.kind = "clear"
    /\ before' = SessionState
    /\ messages' = <<>>
    /\ pc' = "Rerun"
    /\ request' = NoRequest
    /\ data' = NoData
    /\ response_data' = NoData
    /\ reply' = JsonNull
    /\ tokens_used' = 0
    /\ displayed_text' = <<>>
    /\ shown' = <<>>
    /\ UNCHANGED <<Env, total_tokens, model>>

\* lines 77-80: a run started by the button
ClearChat ==
    /\ pc = "Idle"
    /\ request.kind = "clear"
    /\ before' = SessionState
    /\ messages' = <<>>
    /\ total_tokens' = 0
    /\ pc' = "Rerun"
    /\ request' = NoRequest
    /\ data' = NoData
    /\ response_data' = NoData
    /\ reply' = JsonNull
    /\ tokens_used' = 0
    /\ displayed_text' = <<>>
    /\ shown' = <<>>
    /\ UNCHANGED <<Env, model>>

\* line 80: st.rerun() runs the script once more, with no widget event;
\* that run draws the page (or stops at line 99) and changes nothing
Rerun ==
    /\ pc = "Rerun"
    /\ pc' = "Idle"
    /\ EndRun
    /\ UNCHANGED <<Env, Session, request>>

\* variant: the history itself is cut to the context window
SendPromptTrim ==
    /\ pc = "Idle"
    /\ request.kind = "chat"
    /\ API_KEY # NoKey
    /\ before' = SessionState
    /\ LET all == Append(messages, [role |-> "user", content |-> request.prompt])
       IN  messages' = IF Len(all) > ContextTurns THEN Last(all, ContextTurns) ELSE all
    /\ data' = [model |-> model, messages |-> MessagesForApi(messages')]
    /\ pc' = "Sending"
    /\ request' = NoRequest
    /\ shown' = <<>>
    /\ UNCHANGED <<Env, total_tokens, model, response_data, reply, tokens_used,
                   displayed_text>>

\* variant: the prompt is sent but line 111 does not record it
SendPromptNoAppend ==
    /\ pc = "Idle"
    /\ request.kind = "chat"
    /\ API_KEY # NoKey
    /\ before' = SessionState
    /\ data' = [model |-> model,
                messages |-> MessagesForApi(
                    Append(messages, [role |-> "user", content |-> request.prompt]))]
    /\ pc' = "Sending"
    /\ request' = NoRequest
    /\ shown' = <<>>
    /\ UNCHANGED <<Env, Session, response_data, reply, tokens_used,
                   displayed_text>>

\* lines 87-152: a run started by the chat input, up to the blocking POST
SendPrompt ==
    /\ pc = "Idle"
    /\ request.kind = "chat"
    /\ ~KeyMissing
    /\ before' = SessionState
    /\ messages' = Append(messages, [role |-> "user", content |-> request.prompt])
    /\ data' = [model |-> model, messages |-> MessagesForApi(messages')]
    /\ pc' = "Sending"
    /\ request' = NoRequest
    /\ shown' = <<>>
    /\ UNCHANGED <<Env, total_tokens, model, response_data, reply, tokens_used,
                   displayed_text>>

\* lines 155-190 for a 200 response whose body parses as JSON
ParseBody(body) ==
    IF HasChoices(body) /\ HasContent(body)
    THEN /\ Len(messages) < MaxTurns
         /\ total_tokens + TokensUsed(body) <= MaxTotal
         /\ response_data' = body
         /\ reply' = Reply(body)
         /\ tokens_used' = TokensUsed(body)
         /\ pc' = "Success"
    ELSE \* line 211, or the KeyError of line 187 caught at line 220
         /\ pc' = "Failure"
         /\ UNCHANGED <<response_data, reply, tokens_used>>

\* lines 147-190 and 214-221: the POST returns or raises
Receive ==
    /\ pc = "Sending"
    /\ \E o \in Outcomes :
         IF o.kind = "http" /\ o.status = 200 /\ o.json
         THEN ParseBody(o.body)
         ELSE \* lines 155-180 (st.stop), 214-219 (exception handlers)
              /\ pc' = "Failure"
              /\ UNCHANGED <<response_data, reply, tokens_used>>
    /\ UNCHANGED <<Env, Session, request, data, displayed_text, shown, before>>

\* lines 191-195: the counter is raised, then the typing loop is entered;
\* iterating a reply that is not a string raises TypeError (caught line 220)
AddTokens ==
    /\ pc = "Success"
    /\ total_tokens' = total_tokens + tokens_used
    /\ displayed_text' = <<>>
    /\ pc' = IF IsStr(reply) THEN "Rendering" ELSE "Failure"
    /\ UNCHANGED <<Env, messages, model, request, data, response_data, reply,
                   tokens_used, shown, before>>

\* lines 195-198: one round of the typing loop
RevealChar ==
    /\ pc = "Rendering"
    /\ request = NoRequest
    /\ Len(displayed_text) < Len(reply.str)
    /\ displayed_text' = Append(displayed_text, reply.str[Len(displayed_text) + 1])
    /\ shown' = Append(displayed_text', Cursor)
    /\ UNCHANGED <<Env, Session, pc, request, data, response_data, reply,
                   tokens_used, before>>

\* lines 201-208, after the loop has consumed the whole reply
SaveToSession ==
    /\ pc = "Rendering"
    /\ request = NoRequest
    /\ Len(displayed_text) = Len(reply.str)
    /\ shown' = reply.str
    /\ messages' = Append(messages, [role |-> "assistant",
                                     content |-> reply.str,
                                     tokens |-> tokens_used])
    /\ pc' = "Saved"
    /\ UNCHANGED <<Env, total_tokens, model, request, data, response_data,
                   reply, tokens_used, displayed_text, before>>

\* lines 197 and 201: message_placeholder.write() is where a latched widget
\* event ends the run; the statements after it are never executed
Interrupted ==
    /\ pc = "Rendering"
    /\ request # NoRequest
    /\ pc' = "Idle"
    /\ EndRun
    /\ UNCHANGED <<Env, Session, request>>

\* the run ends: at st.stop() (lines 164-180), or after the footer (lines
\* 224-238) that follows an error message or the saved reply
EndTurn ==
    /\ pc \in {"Failure", "Saved"}
    /\ pc' = "Idle"
    /\ EndRun
    /\ UNCHANGED <<Env, Session, request>>

Next ==
    \/ ClickClear
    \/ SubmitPrompt
    \/ ClearChat
    \/ Rerun
    \/ SendPrompt
    \/ Receive
    \/ AddTokens
    \/ RevealChar
    \/ SaveToSession
    \/ Interrupted
    \/ EndTurn

Spec == Init /\ [][Next]_vars

TypeOK ==
    /\ pc \in {"Idle", "Rerun", "Sending", "Success", "Rendering", "Saved", "Failure"}
    /\ total_tokens \in 0..MaxTotal
    /\ Len(messages) <= MaxTurns
-----------------------------------------------------------------------------
(* Vocabulary of the properties *)

RECURSIVE SumTokens(_)
SumTokens(msgs) ==
    IF msgs = <<>> THEN 0
    ELSE (IF msgs[1].role = "assistant" THEN msgs[1].tokens ELSE 0)
           + SumTokens(Tail(msgs))

IsPrefix(s, t) == Len(s) <= Len(t) /\ SubSeq(t, 1, Len(s)) = s

LastTurn == messages[Len(messages)]

\* the history is the one the run found plus exactly one user turn
OnlyUserTurnAdded ==
    /\ Len(messages) = Len(before.messages) + 1
    /\ SubSeq(messages, 1, Len(messages) - 1) = before.messages
    /\ LastTurn.role = "user"
    /\ DOMAIN LastTurn = {"role", "content"}

Pending == pc \in {"Sending", "Success", "Rendering"}

NoUsageTotal(body) ==
    ~("usage" \in DOMAIN body /\ "total_tokens" \in DOMAIN body.usage)

-----------------------------------------------------------------------------
(* Properties *)

\* C1: in every reachable state, the steps of handling a successful reply
\* included, total_tokens is the sum of the tokens fields of the assistant
\* turns in the history.
C1_TotalIsSumOfTurnTokens ==
    total_tokens = SumTokens(messages)

\* C2: the message list of a request has at most 5 entries and is the last
\* min(5, len) turns of the history as it stands after the user turn was
\* appended, in history order, each reduced to role and content.
C2_WindowIsLastFive ==
    pc = "Sending" =>
        LET sentMsgs == data.messages
            n == IF Len(messages) < 5 THEN Len(messages) ELSE 5
        IN  /\ Len(sentMsgs) <= 5
            /\ Len(sentMsgs) = n
            /\ \A i \in 1..n :
                 /\ DOMAIN sentMsgs[i] = {"role", "content"}
                 /\ sentMsgs[i].role = messages[Len(messages) - n + i].role
                 /\ sentMsgs[i].content = messages[Len(messages) - n + i].content

\* a request whose window leaves out the oldest turn and carries an
\* assistant turn stripped of its tokens field
C2_Witness ==
    /\ pc = "Sending"
    /\ Len(messages) > 5
    /\ Len(data.messages) = 5
    /\ \E i \in 1..5 : data.messages[i].role = "assistant"

\* C3: a turn that ends in failure leaves the session as it was before the
\* submission, but for the appended user turn: no assistant turn, same
\* counter.
C3_FailureOnlyAddsUserTurn ==
    pc = "Failure" =>
        /\ OnlyUserTurnAdded
        /\ total_tokens = before.total_tokens
        /\ model = before.model

\* C4: the reset, from any session state, leaves an empty history, a zero
\* counter and the model it found.
C4_ResetClearsSession ==
    pc = "Rerun" =>
        /\ messages = <<>>
        /\ total_tokens = 0
        /\ model = before.model

\* the reset has just run on a session with turns and a non-zero counter
C4_Witness ==
    /\ pc = "Rerun"
    /\ Len(before.messages) >= 2
    /\ before.total_tokens > 0
    /\ messages = <<>>

\* C5: with no credential in the secrets store or the environment, no
\* request is issued and no user turn is recorded.
C5_NoCredentialNoRequest ==
    CredentialAbsent =>
        /\ data = NoData
        /\ messages = <<>>
        /\ ~Pending

C7_AppendOnlyBetweenResets ==
    [][\/ IsPrefix(messages, messages')
       \/ (pc = "Idle" /\ request.kind = "clear" /\ messages' = <<>>)]_vars

\* a history longer than the context window, built by appends alone
C7_Witness ==
    /\ Len(messages) > 5
    /\ pc = "Sending"
    /\ IsPrefix(before.messages, messages)

\* C8: while a call is pending (Sending, Success, Rendering) no new user turn
\* and no reset can be submitted.
C8_NoEventWhilePending ==
    Pending => request = NoRequest

\* C9: on a successful reply the session (assistant turn and counter) is
\* committed only after the whole reply has been revealed; what is revealed
\* is always a prefix of the reply, the final text is the reply, and the
\* saved turn carries the reply and the reported token count.
C9_CommitAfterReveal ==
    /\ pc = "Rendering" =>
         /\ IsPrefix(displayed_text, reply.str)
         /\ OnlyUserTurnAdded
         /\ total_tokens = before.total_tokens
    /\ pc = "Saved" =>
         /\ shown = reply.str
         /\ LastTurn = [role |-> "assistant", content |-> reply.str,
                        tokens |-> tokens_used]
         /\ total_tokens = before.total_tokens + tokens_used

\* C10: every assistant turn comes right after a user turn.
C10_AssistantFollowsUser ==
    \A i \in 1..Len(messages) :
        messages[i].role = "assistant" =>
            /\ i > 1
            /\ messages[i - 1].role = "user"

\* two user turns in a row (a failed turn), then a turn that was answered
C10_Witness ==
    \E i \in 1..Len(messages) :
        /\ i + 2 <= Len(messages)
        /\ messages[i].role = "user"
        /\ messages[i + 1].role = "user"
        /\ messages[i + 2].role = "assistant"

====
